---- MODULE Spec2Model ----
(***************************************************************************)
(* pydantic-file-settings: FileSettings.exists / create / load / save      *)
(* (src/src/pydantic_file_settings/__init__.py) over a small filesystem,   *)
(* with the two schemas of the test-suite (SimpleSettings and              *)
(* CustomFilenameSettings).                                                *)
(*                                                                         *)
(* The validation engine (pydantic, lax mode) is modelled by what it does  *)
(* on the value domain of the model: str fields accept only strings, int   *)
(* fields accept integers, booleans and numeric strings, bool fields       *)
(* accept booleans, the integers 0/1 and the strings "0"/"1"; undeclared   *)
(* keys are forbidden; absent keys take the declared default.              *)
(* The process environment is taken to define none of the fields, so that  *)
(* cls() yields the declared defaults (as in the test-suite).              *)
(***************************************************************************)
EXTENDS Integers, Sequences, FiniteSets, TLC

(* ------------------------------- bounds -------------------------------- *)

\* the largest integer a caller assigns
MaxInt == 1

\* integers and strings a caller assigns / a file may hold
Ints == 0..MaxInt
Strs == {"default", "1"}

(* ------------------------------ values --------------------------------- *)

\* a Python value: tag t and the payload of that tag (the others are fillers)
IntV(n) == [t |-> "int", i |-> n, s |-> "", b |-> FALSE]
StrV(x) == [t |-> "str", i |-> 0, s |-> x, b |-> FALSE]
BoolV(x) == [t |-> "bool", i |-> 0, s |-> "", b |-> x]

RawValues == {IntV(n) : n \in Ints} \cup {StrV(x) : x \in Strs}
                \cup {BoolV(x) : x \in BOOLEAN}

\* a JSON token: number, string, or one of the literals true / false
JNum(n) == [j |-> "number", n |-> n, s |-> ""]
JStr(x) == [j |-> "string", n |-> 0, s |-> x]
JTrue == [j |-> "true", n |-> 0, s |-> ""]
JFalse == [j |-> "false", n |-> 0, s |-> ""]

\* number of characters of the strings that occur in files
StrLen(x) ==
    CASE x = "default" -> 7
      [] x = "1" -> 1
      [] x = "0" -> 1
      [] x = "test" -> 4
      [] x = "name" -> 4
      [] x = "count" -> 5
      [] x = "enabled" -> 7
      [] x = "value" -> 5
      [] x = "unknown_field" -> 13
      [] OTHER -> 0

\* int(x) for the strings made of digits only; ok = FALSE for the others
StrToInt(x) ==
    CASE x = "0" -> [ok |-> TRUE, i |-> 0]
      [] x = "1" -> [ok |-> TRUE, i |-> 1]
      [] OTHER -> [ok |-> FALSE, i |-> 0]

(* ------------------------------ schemas -------------------------------- *)

Classes == {"SimpleSettings", "CustomFilenameSettings"}

\* the default filename, as the override ignored would give
FILENAME_NoOverride(c) == "settings.json"

\* cls.__FILENAME__
FILENAME(c) == IF c = "CustomFilenameSettings" THEN "custom_config.json"
               ELSE "settings.json"

\* the files of the settings directory
Files == {"settings.json", "custom_config.json"}

\* the declared fields, in declaration order
Schema(c) ==
    IF c = "CustomFilenameSettings"
    THEN << [name |-> "value", type |-> "str", default |-> StrV("test")] >>
    ELSE << [name |-> "name", type |-> "str", default |-> StrV("default")],
            [name |-> "count", type |-> "int", default |-> IntV(0)],
            [name |-> "enabled", type |-> "bool", default |-> BoolV(TRUE)] >>

FieldNames(c) == {Schema(c)[k].name : k \in 1..Len(Schema(c))}

Defaults(c) == [k \in 1..Len(Schema(c)) |-> Schema(c)[k].default]

(* ------------------------- validation engine --------------------------- *)

\* a validator that stores whatever it is given
Coerce_NoValidation(type, v) == [ok |-> TRUE, v |-> v]

\* lax-mode validation of one value against a declared type
Coerce(type, v) ==
    CASE type = "str" ->
            IF v.t = "str" THEN [ok |-> TRUE, v |-> v]
            ELSE [ok |-> FALSE, v |-> v]
      [] type = "int" ->
            IF v.t = "int" THEN [ok |-> TRUE, v |-> v]
            ELSE IF v.t = "bool"
                 THEN [ok |-> TRUE, v |-> IntV(IF v.b THEN 1 ELSE 0)]
            ELSE IF StrToInt(v.s).ok
                 THEN [ok |-> TRUE, v |-> IntV(StrToInt(v.s).i)]
            ELSE [ok |-> FALSE, v |-> v]
      [] OTHER ->
            IF v.t = "bool" THEN [ok |-> TRUE, v |-> v]
            ELSE IF v.t = "int" /\ v.i \in {0, 1}
                 THEN [ok |-> TRUE, v |-> BoolV(v.i = 1)]
            ELSE IF v.t = "str" /\ StrToInt(v.s).ok /\ StrToInt(v.s).i \in {0, 1}
                 THEN [ok |-> TRUE, v |-> BoolV(StrToInt(v.s).i = 1)]
            ELSE [ok |-> FALSE, v |-> v]

\* the JSON token a value is serialized to
ToJson(v) ==
    CASE v.t = "int" -> JNum(v.i)
      [] v.t = "str" -> JStr(v.s)
      [] OTHER -> IF v.b THEN JTrue ELSE JFalse

\* the value a JSON token is parsed to
FromJson(tok) ==
    CASE tok.j = "number" -> IntV(tok.n)
      [] tok.j = "string" -> StrV(tok.s)
      [] OTHER -> BoolV(tok.j = "true")

TokLen(tok) ==
    CASE tok.j = "number" -> 1
      [] tok.j = "string" -> StrLen(tok.s) + 2
      [] tok.j = "true" -> 4
      [] OTHER -> 5

RECURSIVE SumLen(_, _)
SumLen(members, n) ==
    IF n = 0 THEN 0
    ELSE SumLen(members, n - 1) + 2 + StrLen(members[n].k) + 2 + 2
            + TokLen(members[n].tok) + (IF n > 1 THEN 2 ELSE 0)

\* characters of the text json(indent=2) gives for the members
IndentedSize(members) ==
    IF Len(members) = 0 THEN 2 ELSE 2 + SumLen(members, Len(members)) + 2

\* a serializer that forgets the last declared field
Dump_DropsLast(c, fields) ==
    LET n == Len(Schema(c)) - 1
        members == [k \in 1..n |->
                        [k |-> Schema(c)[k].name, tok |-> ToJson(fields[k])]]
    IN  [wellformed |-> TRUE, members |-> members, size |-> IndentedSize(members)]

\* a serializer that adds the private directory attribute to the file
Dump_WithDir(c, fields) ==
    LET n == Len(Schema(c))
        members == [k \in 1..(n + 1) |->
                        IF k <= n
                        THEN [k |-> Schema(c)[k].name, tok |-> ToJson(fields[k])]
                        ELSE [k |-> "_settings_dir", tok |-> JStr("/cwd/cfg")]]
    IN  [wellformed |-> TRUE, members |-> members, size |-> IndentedSize(members)]

\* self.model_dump_json(indent=2): the declared fields, in declaration order
Dump(c, fields) ==
    LET members == [k \in 1..Len(Schema(c)) |->
                        [k |-> Schema(c)[k].name, tok |-> ToJson(fields[k])]]
    IN  [wellformed |-> TRUE, members |-> members, size |-> IndentedSize(members)]

\* the members of a text that carry the key
Holding(text, key) == {m \in 1..Len(text.members) : text.members[m].k = key}

\* the validated value of field k of class c read from a text
FieldFrom(c, text, k) ==
    LET at == Holding(text, Schema(c)[k].name)
    IN  IF at = {} THEN [ok |-> TRUE, v |-> Schema(c)[k].default]
        ELSE Coerce(Schema(c)[k].type,
                    FromJson(text.members[CHOOSE m \in at : \A o \in at : o <= m].tok))

\* a parser that silently ignores keys the schema does not declare
ValidateJson_IgnoreExtra(c, text) ==
    LET n == Len(Schema(c))
    IN  IF /\ text.wellformed
           /\ \A k \in 1..n : FieldFrom(c, text, k).ok
        THEN [ok |-> TRUE, fields |-> [k \in 1..n |-> FieldFrom(c, text, k).v]]
        ELSE [ok |-> FALSE, fields |-> << >>]

\* cls.model_validate_json(json_data)
ValidateJson(c, text) ==
    LET n == Len(Schema(c))
    IN  IF /\ text.wellformed
           /\ \A m \in 1..Len(text.members) : text.members[m].k \in FieldNames(c)
           /\ \A k \in 1..n : FieldFrom(c, text, k).ok
        THEN [ok |-> TRUE, fields |-> [k \in 1..n |-> FieldFrom(c, text, k).v]]
        ELSE [ok |-> FALSE, fields |-> << >>]

(* ---------------------------- exceptions ------------------------------- *)

\* SettingsExistsError declared without the package's base class
Base_ExistsNotRooted(e) ==
    CASE e = "SettingsNotFoundError" -> "SettingsError"
      [] e = "ValidationError" -> "ValueError"
      [] e = "Exception" -> "BaseException"
      [] OTHER -> "Exception"

\* the class each exception class extends
Base(e) ==
    CASE e = "SettingsNotFoundError" -> "SettingsError"
      [] e = "SettingsExistsError" -> "SettingsError"
      [] e = "ValidationError" -> "ValueError"
      [] e = "Exception" -> "BaseException"
      [] OTHER -> "Exception"

\* isinstance(e(), c), i.e. `except c` catches e
Catches(c, e) ==
    \/ e = c
    \/ Base(e) = c
    \/ Base(Base(e)) = c
    \/ Base(Base(Base(e))) = c

(* ---------------------------- file system ------------------------------ *)

\* the spellings of the settings directory a caller passes
RawDirs == {"cfg", "/cwd/cfg"}

\* Path(settings_dir).resolve(): the absolute path, the process running in /cwd
Resolve(d) == IF d = "cfg" THEN "/cwd/cfg" ELSE d

Dirs == {Resolve(d) : d \in RawDirs}

Paths == Dirs \X Files

\* compact json.dumps size of the members
CompactSize(members) ==
    IF Len(members) = 0 THEN 2
    ELSE SumLen(members, Len(members)) - 2 * Len(members) + 2

\* the content of a file just opened for writing (truncated)
Empty == [wellformed |-> FALSE, members |-> << >>, size |-> 0]

Missing == [exists |-> FALSE, text |-> Empty]

Object(members) ==
    [wellformed |-> TRUE, members |-> members, size |-> CompactSize(members)]

\* the texts written into the directory from outside the class
InvalidJsonText == [wellformed |-> FALSE, members |-> << >>, size |-> 12]
EmptyObjectText == Object(<< >>)
ExtraKeyText == Object(<< [k |-> "unknown_field", tok |-> JStr("default")] >>)
NotANumberText == Object(<< [k |-> "count", tok |-> JStr("default")] >>)
NumericTextText == Object(<< [k |-> "count", tok |-> JStr("1")] >>)

ExternalTexts == {InvalidJsonText, EmptyObjectText, ExtraKeyText,
                  NotANumberText, NumericTextText}

\* the file after `data` is written at offset 0 over `old`: what lies beyond
\* the end of data stays, and then the file is no JSON document
WriteOver(old, data) ==
    IF data.size >= old.size THEN data
    ELSE [wellformed |-> FALSE, members |-> << >>, size |-> old.size]

(* ------------------------------- state --------------------------------- *)

VARIABLES
    fs,        \* path -> [exists, text]
    dirs,      \* the directories that exist
    writable,  \* whether the OS lets the process create and write files
    insts,     \* caller variable -> the instance it holds (NoInst: none)
    pending,   \* caller variable -> the save() it is in the middle of
    lastOp     \* the last call and how it ended

vars == <<fs, dirs, writable, insts, pending, lastOp>>

\* the caller variables: each thread of SpecConcurrent holds one
Inst == {1, 2}

\* the caller variable of the sequential program
Main == {1}

NoInst == [cls |-> "none", dir |-> "", fields |-> << >>]

Closed == [open |-> FALSE, cls |-> "none", dir |-> "", fields |-> << >>,
           clean |-> FALSE]

\* a call: the operation, its class, its flag (exists_ok, create_if_missing),
\* the caller variable that received the instance (0: none), the exception
\* raised ("": none), and whether the class's file existed when it started
Op(op, c, flag, i, err, found) ==
    [op |-> op, cls |-> c, flag |-> flag, inst |-> i, err |-> err, found |-> found]

Init ==
    /\ fs = [p \in Paths |-> Missing]
    /\ dirs \in {{}, Dirs}
    /\ writable = TRUE
    /\ insts = [i \in Inst |-> NoInst]
    /\ pending = [i \in Inst |-> Closed]
    /\ lastOp = Op("init", "none", FALSE, 0, "", FALSE)

(* ----------------------------- operations ------------------------------ *)

\* FileSettings.exists
ExistsResult(c, d) == fs[<<Resolve(d), FILENAME(c)>>].exists

\* cls(): the declared defaults, through validation
New(c) ==
    [k \in 1..Len(Schema(c)) |-> Coerce(Schema(c)[k].type, Schema(c)[k].default).v]

\* the exception kinds the operations raise
ExistsError == "SettingsExistsError"
NotFoundError == "SettingsNotFoundError"
InvalidDataError == "ValueError"
PersistenceError == "OSError"
AssignmentError == "ValidationError"

\* FileSettings.save, run to completion: mkdir, open (truncating), write
SaveResult(inst) ==
    LET p == <<inst.dir, FILENAME(inst.cls)>>
    IN  IF writable
        THEN [err |-> "",
              fs |-> [fs EXCEPT ![p] =
                        [exists |-> TRUE,
                         text |-> WriteOver(Empty, Dump(inst.cls, inst.fields))]],
              dirs |-> dirs \cup {inst.dir}]
        ELSE [err |-> PersistenceError, fs |-> fs, dirs |-> dirs]

\* create() that loads the existing file when exists_ok is set
CreateResult_LoadsExisting(c, d, exists_ok) ==
    LET dir == Resolve(d)
        settings == [cls |-> c, dir |-> dir, fields |-> New(c)]
        sv == SaveResult(settings)
        old == ValidateJson(c, fs[<<dir, FILENAME(c)>>].text)
    IN  IF ~exists_ok /\ ExistsResult(c, dir)
        THEN [err |-> ExistsError, inst |-> NoInst, fs |-> fs, dirs |-> dirs]
        ELSE IF ExistsResult(c, dir) /\ old.ok
        THEN [err |-> "", inst |-> [cls |-> c, dir |-> dir, fields |-> old.fields],
              fs |-> fs, dirs |-> dirs]
        ELSE [err |-> sv.err,
              inst |-> IF sv.err = "" THEN settings ELSE NoInst,
              fs |-> sv.fs, dirs |-> sv.dirs]

\* create() without the existence check
CreateResult_NoCheck(c, d, exists_ok) ==
    LET dir == Resolve(d)
        settings == [cls |-> c, dir |-> dir, fields |-> New(c)]
        sv == SaveResult(settings)
    IN  [err |-> sv.err,
         inst |-> IF sv.err = "" THEN settings ELSE NoInst,
         fs |-> sv.fs, dirs |-> sv.dirs]

\* FileSettings.create
CreateResult(c, d, exists_ok) ==
    LET dir == Resolve(d)
        settings == [cls |-> c, dir |-> dir, fields |-> New(c)]
        sv == SaveResult(settings)
    IN  IF ~exists_ok /\ ExistsResult(c, dir)
        THEN [err |-> ExistsError, inst |-> NoInst, fs |-> fs, dirs |-> dirs]
        ELSE [err |-> sv.err,
              inst |-> IF sv.err = "" THEN settings ELSE NoInst,
              fs |-> sv.fs, dirs |-> sv.dirs]

\* load() that creates the file whenever it is missing
LoadResult_AlwaysCreates(c, d, create_if_missing) ==
    LET dir == Resolve(d)
        r == ValidateJson(c, fs[<<dir, FILENAME(c)>>].text)
    IN  IF ~ExistsResult(c, dir)
        THEN CreateResult(c, dir, FALSE)
        ELSE IF r.ok
        THEN [err |-> "", inst |-> [cls |-> c, dir |-> dir, fields |-> r.fields],
              fs |-> fs, dirs |-> dirs]
        ELSE [err |-> InvalidDataError, inst |-> NoInst, fs |-> fs, dirs |-> dirs]

\* load() that writes the validated instance back to the file
LoadResult_Resaves(c, d, create_if_missing) ==
    LET dir == Resolve(d)
        r == ValidateJson(c, fs[<<dir, FILENAME(c)>>].text)
        loaded == [cls |-> c, dir |-> dir, fields |-> r.fields]
    IN  IF ~ExistsResult(c, dir)
        THEN IF create_if_missing
             THEN CreateResult(c, dir, FALSE)
             ELSE [err |-> NotFoundError, inst |-> NoInst, fs |-> fs, dirs |-> dirs]
        ELSE IF r.ok
        THEN [err |-> SaveResult(loaded).err,
              inst |-> IF SaveResult(loaded).err = "" THEN loaded ELSE NoInst,
              fs |-> SaveResult(loaded).fs, dirs |-> SaveResult(loaded).dirs]
        ELSE [err |-> InvalidDataError, inst |-> NoInst, fs |-> fs, dirs |-> dirs]

\* FileSettings.load
LoadResult(c, d, create_if_missing) ==
    LET dir == Resolve(d)
        r == ValidateJson(c, fs[<<dir, FILENAME(c)>>].text)
    IN  IF ~ExistsResult(c, dir)
        THEN IF create_if_missing
             THEN CreateResult(c, dir, FALSE)
             ELSE [err |-> NotFoundError, inst |-> NoInst, fs |-> fs, dirs |-> dirs]
        ELSE IF r.ok
        THEN [err |-> "", inst |-> [cls |-> c, dir |-> dir, fields |-> r.fields],
              fs |-> fs, dirs |-> dirs]
        ELSE [err |-> InvalidDataError, inst |-> NoInst, fs |-> fs, dirs |-> dirs]

\* settings.<field k> = v under validate_assignment
AssignResult(inst, k, v) ==
    LET r == Coerce(Schema(inst.cls)[k].type, v)
    IN  IF r.ok
        THEN [err |-> "", inst |-> [inst EXCEPT !.fields[k] = r.v]]
        ELSE [err |-> AssignmentError, inst |-> inst]

(* ------------------------------ actions -------------------------------- *)

\* the saves in progress once a call has left the file system as `after`:
\* those whose file another call has written to are no longer clean
Overwritten(after) ==
    [j \in Inst |->
        IF /\ pending[j].open
           /\ after[<<pending[j].dir, FILENAME(pending[j].cls)>>]
                # fs[<<pending[j].dir, FILENAME(pending[j].cls)>>]
        THEN [pending[j] EXCEPT !.clean = FALSE]
        ELSE pending[j]]

Exists(c, d) ==
    /\ lastOp' = Op("exists", c, FALSE, 0, "", ExistsResult(c, d))
    /\ UNCHANGED <<fs, dirs, writable, insts, pending>>

Create(c, d, exists_ok, i) ==
    LET r == CreateResult(c, d, exists_ok)
    IN  /\ ~pending[i].open
        /\ fs' = r.fs
        /\ dirs' = r.dirs
        /\ insts' = IF r.err = "" THEN [insts EXCEPT ![i] = r.inst] ELSE insts
        /\ lastOp' = Op("create", c, exists_ok, IF r.err = "" THEN i ELSE 0,
                        r.err, fs[<<Resolve(d), FILENAME(c)>>].exists)
        /\ pending' = Overwritten(r.fs)
        /\ UNCHANGED writable

Load(c, d, create_if_missing, i) ==
    LET r == LoadResult(c, d, create_if_missing)
    IN  /\ ~pending[i].open
        /\ fs' = r.fs
        /\ dirs' = r.dirs
        /\ insts' = IF r.err = "" THEN [insts EXCEPT ![i] = r.inst] ELSE insts
        /\ lastOp' = Op("load", c, create_if_missing, IF r.err = "" THEN i ELSE 0,
                        r.err, fs[<<Resolve(d), FILENAME(c)>>].exists)
        /\ pending' = Overwritten(r.fs)
        /\ UNCHANGED writable

\* save() run to completion, no other call in between
Save(i) ==
    LET r == SaveResult(insts[i])
    IN  /\ insts[i] # NoInst
        /\ ~pending[i].open
        /\ fs' = r.fs
        /\ dirs' = r.dirs
        /\ lastOp' = Op("save", insts[i].cls, FALSE, i, r.err,
                        fs[<<insts[i].dir, FILENAME(insts[i].cls)>>].exists)
        /\ pending' = Overwritten(r.fs)
        /\ UNCHANGED <<writable, insts>>

Assign(i, k, v) ==
    LET r == AssignResult(insts[i], k, v)
    IN  /\ insts[i] # NoInst
        /\ ~pending[i].open
        /\ k \in 1..Len(Schema(insts[i].cls))
        /\ insts' = [insts EXCEPT ![i] = r.inst]
        /\ lastOp' = Op("assign", insts[i].cls, FALSE, i, r.err, FALSE)
        /\ UNCHANGED <<fs, dirs, writable, pending>>

\* a file written into the directory by other means (as the tests do)
ExternalWrite(p, text) ==
    /\ p[1] \in dirs
    /\ writable
    /\ fs' = [fs EXCEPT ![p] = [exists |-> TRUE, text |-> text]]
    /\ lastOp' = Op("write", "none", FALSE, 0, "", FALSE)
    /\ UNCHANGED <<dirs, writable, insts, pending>>

\* the OS starts or stops refusing writes (permissions, disk full)
Chmod ==
    /\ writable' = ~writable
    /\ lastOp' = Op("chmod", "none", FALSE, 0, "", FALSE)
    /\ UNCHANGED <<fs, dirs, insts, pending>>

\* the first half of save() in a thread: mkdir, model_dump_json, and open,
\* which truncates the file
SaveOpen(i) ==
    LET p == <<insts[i].dir, FILENAME(insts[i].cls)>>
    IN  /\ insts[i] # NoInst
        /\ ~pending[i].open
        /\ IF writable
           THEN /\ fs' = [fs EXCEPT ![p] = [exists |-> TRUE, text |-> Empty]]
                /\ dirs' = dirs \cup {insts[i].dir}
                /\ pending' = [pending EXCEPT ![i] =
                                 [open |-> TRUE, cls |-> insts[i].cls,
                                  dir |-> insts[i].dir,
                                  fields |-> insts[i].fields, clean |-> TRUE]]
                /\ lastOp' = Op("save_open", insts[i].cls, FALSE, i, "", fs[p].exists)
           ELSE /\ UNCHANGED <<fs, dirs, pending>>
                /\ lastOp' = Op("save", insts[i].cls, FALSE, i, PersistenceError,
                                fs[p].exists)
        /\ UNCHANGED <<writable, insts>>

\* the second half: the text goes to the file at offset 0, and the file is closed
SaveWrite(i) ==
    LET p == <<pending[i].dir, FILENAME(pending[i].cls)>>
    IN  /\ pending[i].open
        /\ fs' = [fs EXCEPT ![p] =
                    [exists |-> TRUE,
                     text |-> WriteOver(fs[p].text,
                                        Dump(pending[i].cls, pending[i].fields))]]
        /\ pending' = [Overwritten(fs') EXCEPT ![i] = Closed]
        /\ lastOp' = Op("save", pending[i].cls, FALSE, i, "", TRUE)
        /\ UNCHANGED <<dirs, writable, insts>>

\* the sequential program: every call runs to completion
Next ==
    \/ \E c \in Classes, d \in RawDirs : Exists(c, d)
    \/ \E c \in Classes, d \in RawDirs, x \in BOOLEAN, i \in Main : Create(c, d, x, i)
    \/ \E c \in Classes, d \in RawDirs, x \in BOOLEAN, i \in Main : Load(c, d, x, i)
    \/ \E i \in Main : Save(i)
    \/ \E i \in Main, k \in 1..3, v \in RawValues : Assign(i, k, v)
    \/ \E p \in Paths, text \in ExternalTexts : ExternalWrite(p, text)
    \/ Chmod

Spec == Init /\ [][Next]_vars

\* two threads, each with its own instance, whose save() calls overlap
NextConcurrent ==
    \/ \E d \in RawDirs, x \in BOOLEAN, i \in Inst :
            Create("CustomFilenameSettings", d, x, i)
    \/ \E i \in Inst, v \in RawValues : Assign(i, 1, v)
    \/ \E i \in Inst : SaveOpen(i)
    \/ \E i \in Inst : SaveWrite(i)

SpecConcurrent == Init /\ [][NextConcurrent]_vars

(* ------------------------------- claims -------------------------------- *)

\* the path of the file of class c in the settings directory
PathOf(c) == <<Resolve("cfg"), FILENAME(c)>>

\* the text holds exactly the declared fields of c, in order, with these values
Holds(text, c, fields) ==
    /\ text.wellformed
    /\ Len(text.members) = Len(Schema(c))
    /\ \A k \in 1..Len(Schema(c)) :
          /\ text.members[k].k = Schema(c)[k].name
          /\ FromJson(text.members[k].tok) = fields[k]

\* the typed values a field of the declared type may hold
Typed(type, v) ==
    CASE type = "str" -> v \in {StrV(x) : x \in Strs \cup {"test"}}
      [] type = "int" -> v \in {IntV(n) : n \in Ints}
      [] OTHER -> v \in {BoolV(x) : x \in BOOLEAN}

\* C1 (round trip): a load that directly follows a successful save() or
\* create() of an instance of the same class succeeds, and the instance it
\* returns has the field values of the instance that was saved.
C1_RoundTrip ==
    [][(/\ lastOp.op \in {"save", "create"}
        /\ lastOp.err = ""
        /\ lastOp'.op = "load"
        /\ lastOp'.cls = lastOp.cls)
       => (/\ lastOp'.err = ""
           /\ insts'[lastOp'.inst].cls = lastOp.cls
           /\ insts'[lastOp'.inst].fields = insts[lastOp.inst].fields)]_vars

\* a load returned non-default values of all three fields from a file that a
\* save() wrote
C1_Witness ==
    /\ lastOp.op = "load"
    /\ lastOp.err = ""
    /\ lastOp.cls = "SimpleSettings"
    /\ insts[lastOp.inst].fields = << StrV("1"), IntV(1), BoolV(FALSE) >>
    /\ fs[PathOf("SimpleSettings")].text.size > 40

\* C2: create with exists_ok = False on an existing file raises
\* SettingsExistsError, returns no instance and changes nothing on disk.
C2_CreateExisting ==
    [][(/\ lastOp'.op = "create"
        /\ ~lastOp'.flag
        /\ fs[PathOf(lastOp'.cls)].exists)
       => (/\ lastOp'.err = "SettingsExistsError"
           /\ lastOp'.inst = 0
           /\ insts' = insts
           /\ fs' = fs
           /\ dirs' = dirs)]_vars

\* create was refused on a file whose content is not the defaults
C2_Witness ==
    /\ lastOp.op = "create"
    /\ lastOp.err = "SettingsExistsError"
    /\ lastOp.found
    /\ ~Holds(fs[PathOf(lastOp.cls)].text, lastOp.cls, Defaults(lastOp.cls))

\* C3: load on a missing file: without create_if_missing it raises
\* SettingsNotFoundError and the file is still missing; with
\* create_if_missing (the OS permitting the write) it succeeds, returns the
\* defaults, and the file exists holding the defaults.
C3_LoadMissing ==
    [][(/\ lastOp'.op = "load"
        /\ ~fs[PathOf(lastOp'.cls)].exists)
       => IF ~lastOp'.flag
          THEN /\ lastOp'.err = "SettingsNotFoundError"
               /\ lastOp'.inst = 0
               /\ insts' = insts
               /\ ~fs'[PathOf(lastOp'.cls)].exists
          ELSE writable =>
               /\ lastOp'.err = ""
               /\ insts'[lastOp'.inst].cls = lastOp'.cls
               /\ insts'[lastOp'.inst].fields = Defaults(lastOp'.cls)
               /\ fs'[PathOf(lastOp'.cls)].exists
               /\ Holds(fs'[PathOf(lastOp'.cls)].text, lastOp'.cls,
                        Defaults(lastOp'.cls))]_vars

\* load(create_if_missing = True) found no file and created it
C3_Witness ==
    /\ lastOp.op = "load"
    /\ lastOp.flag
    /\ ~lastOp.found
    /\ lastOp.err = ""
    /\ fs[PathOf(lastOp.cls)].exists

\* C4 as stated: whatever create, load or save raises is caught by
\* `except SettingsError`.
C4_AllRooted ==
    (lastOp.op \in {"create", "load", "save"} /\ lastOp.err # "")
        => Catches("SettingsError", lastOp.err)

\* C4 amended: create, load and save raise one of four kinds; SettingsExistsError
\* and SettingsNotFoundError are caught by `except SettingsError`; invalid
\* data is raised as ValueError and a failed write as OSError, which
\* `except SettingsError` does not catch (`except Exception` catches all four).
C4_Taxonomy ==
    (lastOp.op \in {"create", "load", "save"} /\ lastOp.err # "")
        => /\ lastOp.err \in {"SettingsExistsError", "SettingsNotFoundError",
                              "ValueError", "OSError"}
           /\ Catches("Exception", lastOp.err)
           /\ lastOp.err \in {"SettingsExistsError", "SettingsNotFoundError"}
                => Catches("SettingsError", lastOp.err)
           /\ lastOp.err \in {"ValueError", "OSError"}
                => ~Catches("SettingsError", lastOp.err)
           /\ (lastOp.op = "load" /\ lastOp.found) => lastOp.err = "ValueError"
           /\ lastOp.op = "save" => lastOp.err = "OSError"

\* a create refused with SettingsExistsError
C4_Witness ==
    /\ lastOp.op = "create"
    /\ lastOp.err = "SettingsExistsError"

\* the JSON type a declared type is serialized as
JsonTypes(type) ==
    CASE type = "str" -> {"string"}
      [] type = "int" -> {"number"}
      [] OTHER -> {"true", "false"}

\* some declared field of c has, in the text, a value of another JSON type
HasWrongType(c, text) ==
    \E m \in 1..Len(text.members), k \in 1..Len(Schema(c)) :
        /\ text.members[m].k = Schema(c)[k].name
        /\ text.members[m].tok.j \notin JsonTypes(Schema(c)[k].type)

\* some declared field of c has, in the text, a value that lax validation
\* cannot convert: a non-string for a str field, a string that is not a
\* number for an int field, a string or number other than 0/1 for a bool field
HasUnconvertible(c, text) ==
    \E m \in 1..Len(text.members), k \in 1..Len(Schema(c)) :
        /\ text.members[m].k = Schema(c)[k].name
        /\ LET tok == text.members[m].tok
               type == Schema(c)[k].type
           IN  CASE type = "str" -> tok.j # "string"
                 [] type = "int" -> tok.j = "string" /\ tok.s \notin {"0", "1"}
                 [] OTHER -> \/ tok.j = "string" /\ tok.s \notin {"0", "1"}
                             \/ tok.j = "number" /\ tok.n \notin {0, 1}

HasUndeclaredKey(c, text) ==
    \E m \in 1..Len(text.members) : text.members[m].k \notin FieldNames(c)

\* C5 as stated, the wrong-type case: a load of an existing file in which a
\* declared field holds a value of another type than declared fails.
C5_WrongTypeRejected ==
    (/\ lastOp.op = "load"
     /\ lastOp.found
     /\ HasWrongType(lastOp.cls, fs[PathOf(lastOp.cls)].text))
        => lastOp.err = "ValueError"

\* C5 amended: a load of an existing file that is malformed, holds a key the
\* schema does not declare, or holds for a declared field a value that
\* cannot be converted to the declared type, raises ValueError and returns
\* no instance; a file that only omits fields loads with their defaults; a
\* numeric text for an int field is converted and the load succeeds.
C5_InvalidData ==
    (lastOp.op = "load" /\ lastOp.found)
        => LET c == lastOp.cls
               text == fs[PathOf(c)].text
           IN  /\ (\/ ~text.wellformed
                   \/ HasUndeclaredKey(c, text)
                   \/ HasUnconvertible(c, text))
                    => (lastOp.err = "ValueError" /\ lastOp.inst = 0)
               /\ text = EmptyObjectText
                    => /\ lastOp.err = ""
                       /\ insts[lastOp.inst].fields = Defaults(c)
               /\ (text = NumericTextText /\ c = "SimpleSettings")
                    => /\ lastOp.err = ""
                       /\ insts[lastOp.inst].fields
                            = << StrV("default"), IntV(1), BoolV(TRUE) >>

\* a load refused a file because of a key the schema does not declare
C5_Witness ==
    /\ lastOp.op = "load"
    /\ lastOp.found
    /\ lastOp.cls = "SimpleSettings"
    /\ fs[PathOf("SimpleSettings")].text = ExtraKeyText
    /\ lastOp.err = "ValueError"

\* C6: after every step the fields of every instance are values of their
\* declared types, and an assignment that raises a validation failure
\* leaves every field of every instance as it was.
C6_Validated ==
    [][/\ \A i \in Inst :
            insts'[i] # NoInst =>
                /\ Len(insts'[i].fields) = Len(Schema(insts'[i].cls))
                /\ \A k \in 1..Len(Schema(insts'[i].cls)) :
                      Typed(Schema(insts'[i].cls)[k].type, insts'[i].fields[k])
       /\ (lastOp'.op = "assign" /\ lastOp'.err # "")
            => (lastOp'.err = "ValidationError" /\ insts' = insts)]_vars

\* an assignment was refused on an instance whose fields had been changed
C6_Witness ==
    /\ lastOp.op = "assign"
    /\ lastOp.err = "ValidationError"
    /\ insts[lastOp.inst].cls = "SimpleSettings"
    /\ insts[lastOp.inst].fields = << StrV("1"), IntV(1), BoolV(FALSE) >>

\* C7: create with exists_ok = True on an existing file (the OS permitting
\* the write) succeeds, returns the defaults and leaves the file holding
\* the defaults, whatever it held.
C7_CreateOverwrites ==
    [][(/\ lastOp'.op = "create"
        /\ lastOp'.flag
        /\ fs[PathOf(lastOp'.cls)].exists
        /\ writable)
       => (/\ lastOp'.err = ""
           /\ insts'[lastOp'.inst].cls = lastOp'.cls
           /\ insts'[lastOp'.inst].fields = Defaults(lastOp'.cls)
           /\ Holds(fs'[PathOf(lastOp'.cls)].text, lastOp'.cls,
                    Defaults(lastOp'.cls)))]_vars

\* create(exists_ok = True) succeeded on a file that existed
C7_Witness ==
    /\ lastOp.op = "create"
    /\ lastOp.flag
    /\ lastOp.found
    /\ lastOp.err = ""
    /\ insts[lastOp.inst].fields = Defaults(lastOp.cls)

\* C8: exists, assignment, load of an existing file, load raising
\* SettingsNotFoundError and create raising SettingsExistsError leave the
\* file system as it was; exists returns whether the file is there, and two
\* exists calls in a row return the same.
C8_OnlySaveWrites ==
    [][/\ (\/ lastOp'.op \in {"exists", "assign"}
           \/ lastOp'.op = "load" /\ fs[PathOf(lastOp'.cls)].exists
           \/ lastOp'.op = "load" /\ lastOp'.err = "SettingsNotFoundError"
           \/ lastOp'.op = "create" /\ lastOp'.err = "SettingsExistsError")
            => (fs' = fs /\ dirs' = dirs)
       /\ lastOp'.op = "exists"
            => lastOp'.found = fs[PathOf(lastOp'.cls)].exists
       /\ (lastOp.op = "exists" /\ lastOp'.op = "exists"
           /\ lastOp'.cls = lastOp.cls)
            => lastOp'.found = lastOp.found]_vars

\* a load returned an instance from an existing file
C8_Witness ==
    /\ lastOp.op = "load"
    /\ lastOp.found
    /\ lastOp.err = ""
    /\ insts[lastOp.inst].fields # Defaults(lastOp.cls)

\* C9: the operations of CustomFilenameSettings use custom_config.json and
\* never change settings.json, those of SimpleSettings use settings.json and
\* never change custom_config.json: exists answers for the class's own
\* file, a successful create or save leaves the instance's values in it, a
\* successful load returns what it holds.
C9_OwnFileOnly ==
    [][lastOp'.op \in {"exists", "create", "load", "save", "assign"}
       => LET own == IF lastOp'.cls = "CustomFilenameSettings"
                     THEN <<"/cwd/cfg", "custom_config.json">>
                     ELSE <<"/cwd/cfg", "settings.json">>
          IN  /\ \A p \in Paths : p # own => fs'[p] = fs[p]
              /\ lastOp'.op = "exists" => lastOp'.found = fs[own].exists
              /\ (lastOp'.op \in {"create", "save"} /\ lastOp'.err = "")
                    => /\ fs'[own].exists
                       /\ Holds(fs'[own].text, lastOp'.cls,
                                insts'[lastOp'.inst].fields)
              /\ (lastOp'.op = "load" /\ lastOp'.err = "")
                    => Holds(fs'[own].text, lastOp'.cls,
                             insts'[lastOp'.inst].fields)
                       \/ fs'[own].text \in ExternalTexts]_vars

\* a CustomFilenameSettings instance was saved with a changed value beside
\* a settings.json that does not hold the defaults
C9_Witness ==
    /\ lastOp.op = "save"
    /\ lastOp.cls = "CustomFilenameSettings"
    /\ lastOp.err = ""
    /\ insts[lastOp.inst].fields = << StrV("1") >>
    /\ fs[<<"/cwd/cfg", "settings.json">>].exists
    /\ ~Holds(fs[<<"/cwd/cfg", "settings.json">>].text, "SimpleSettings",
              Defaults("SimpleSettings"))

\* C10 as stated: when a save() completes and no other is in progress, the
\* file holds exactly the field values that save() serialized.
C10_LastWriterWins ==
    [][\A i \in Inst :
        (/\ pending[i].open
         /\ ~pending'[i].open
         /\ \A j \in Inst : ~pending'[j].open)
        => Holds(fs'[PathOf(pending[i].cls)].text, pending[i].cls,
                 pending[i].fields)]_vars

\* C10 amended: no save() is refused or fails because of another, a save()
\* changes no instance and an assignment changes only its own instance; a
\* write that completes with no other write to the file since its own open
\* leaves exactly the declared fields with the values serialized by that
\* save(); any other write leaves either that or a file that is no JSON
\* document (the tail of a longer text written in between remains).
C10_NoOverlapWins ==
    [][/\ lastOp'.op \in {"save_open", "save"}
            => (lastOp'.err = "" /\ insts' = insts)
       /\ lastOp'.op = "assign"
            => \A j \in Inst : j # lastOp'.inst => insts'[j] = insts[j]
       /\ \A i \in Inst :
            (pending[i].open /\ ~pending'[i].open)
            => LET text == fs'[PathOf(pending[i].cls)].text
               IN  /\ pending[i].clean
                        => Holds(text, pending[i].cls, pending[i].fields)
                   /\ text.wellformed
                        => Holds(text, pending[i].cls, pending[i].fields)]_vars

\* two saves overlapped and the one that wrote last left its values
C10_Witness ==
    /\ lastOp.op = "save"
    /\ \A j \in Inst : ~pending[j].open
    /\ insts[1].cls = "CustomFilenameSettings"
    /\ insts[2].cls = "CustomFilenameSettings"
    /\ insts[1].fields # insts[2].fields
    /\ Holds(fs[PathOf("CustomFilenameSettings")].text, "CustomFilenameSettings",
             insts[lastOp.inst].fields)

====
